---------------------------- MODULE Spec2Model ----------------------------
(***************************************************************************)
(* A model of chesstr: chess played over signed relay events.              *)
(*                                                                         *)
(*   - the relay is a set of signed events; a query returns the matching   *)
(*     events in an order the client does not control;                     *)
(*   - the challenge hooks (useCreateChallenge, useAcceptChallenge,        *)
(*     useDeclineChallenge) sign and broadcast challenge events;           *)
(*   - the projector (queryFn of useChessGameData) turns the events of one *)
(*     game identifier into an ActiveGame or null;                         *)
(*   - the Game page adopts projections (poll) and raw pushed snapshots    *)
(*     (subscription) into its local chess position.                       *)
(*                                                                         *)
(* Strings that the code only compares are strings here.  A PGN text is a  *)
(* record of what the code reads from it: its headers (parsePGNHeaders),   *)
(* its move list and whether chess.js can load it.  A challenge content is *)
(* a record of the JSON fields the code reads and whether JSON.parse       *)
(* accepts it.  A tag that is absent is the empty string (the code treats  *)
(* undefined and '' alike: `x || fallback`, `!x`).                         *)
(***************************************************************************)
EXTENDS Integers, Sequences, FiniteSets, TLC

\* ------------------------------------------------------------------ bounds
MaxTime   == 1      \* wall-clock seconds the model lets pass
MaxEvents == 3      \* events the relay holds for the game identifier
MaxMoves  == 3      \* length of the move history on the Game page
MaxSnapshots == 4   \* snapshots published while the Game page is open
MaxGameSnapshots == 2   \* the same, in the runs with every input (SpecGame)
MaxNavSnapshots == 2    \* the same, in the runs with two games (SpecNav)
MaxClockSnapshots == 2  \* the same, in the runs with the clock (SpecClock)
MaxClock    == 2    \* initial time of a timed game, in units of the clock
MaxDelta    == 2    \* longest time between two animation frames
MaxTimeouts == 2    \* calls of onTimeout while the Game page is open

\* --------------------------------------------------------- program constants
CHESS_GAME_KIND      == 64
CHESS_CHALLENGE_KIND == 30064

\* Identities (pubkeys).  One-character strings, so that the character-code
\* sum used by the random colour rule is the code of that character.
Users  == {"a", "b", "c"}
NoUser == ""                      \* useCurrentUser() gives no user

charCodeSum(s) ==
  CASE s = ""  -> 0
    [] s = "a" -> 97
    [] s = "b" -> 98
    [] s = "c" -> 99

GameId == "g1"
OtherGameId == "g2"
NoGame == ""            \* no Game page is mounted

\* TimeControl values; DefaultTC is the literal { initial: 300, increment: 0 }.
DefaultTC    == [initial |-> 300, increment |-> 0]
UnlimitedTC  == [initial |-> 0, increment |-> 0]
BlitzTC      == [initial |-> 60, increment |-> 1]
AbsentTC     == [initial |-> -1, increment |-> -1]   \* JSON field not present
TimeControls == {UnlimitedTC, BlitzTC}

Null == [null |-> TRUE]

\* ------------------------------------------------------------- PGN texts
\* The TimeControl header text: absent, "-", "<i>" or "<i>+<inc>".
NoHdr       == [f |-> "none",   i |-> 0, inc |-> 0]
DashHdr     == [f |-> "dash",   i |-> 0, inc |-> 0]
NumHdr(i)   == [f |-> "num",    i |-> i, inc |-> 0]
IncHdr(i,n) == [f |-> "numinc", i |-> i, inc |-> n]

\* The empty text ''.
EmptyText == [t |-> "empty", ok |-> FALSE, hw |-> "", hb |-> "", hres |-> "",
              htc |-> NoHdr, hist |-> <<>>]

\* The text '*' (what the projector puts in a game with no snapshot).
StarPgn == [t |-> "star", ok |-> TRUE, hw |-> "", hb |-> "", hres |-> "",
            htc |-> NoHdr, hist |-> <<>>]

\* A text with headers and a move list.  ok = chess.loadPgn accepts it.
Pgn(w, b, res, tc, hist, ok) ==
  [t |-> "pgn", ok |-> ok, hw |-> w, hb |-> b, hres |-> res,
   htc |-> tc, hist |-> hist]

\* parsePGNHeaders: the headers of a text, keys lower-cased.
parsePGNHeaders(pgn) ==
  [white |-> pgn.hw, black |-> pgn.hb, result |-> pgn.hres,
   timecontrol |-> pgn.htc]

\* formatTimeControlHeader
formatTimeControlHeader(tc) ==
  IF tc.initial = 0 THEN DashHdr
  ELSE IF tc.increment > 0 THEN IncHdr(tc.initial, tc.increment)
  ELSE NumHdr(tc.initial)

\* ------------------------------------------------------------------ events
Event(id, pubkey, kind, at, d, p, e, status, white, black, content) ==
  [id |-> id, pubkey |-> pubkey, kind |-> kind, created_at |-> at,
   d |-> d, p |-> p, e |-> e, status |-> status,
   white |-> white, black |-> black, content |-> content]

\* JSON content of a challenge event.
Json(ok, tc, color, orig) ==
  [ok |-> ok, timeControl |-> tc, challengerColor |-> color,
   originalChallenger |-> orig]

\* ------------------------------------------------------------ parseGameEvent
parseGameEvent(event) ==
  IF event.d = "" THEN Null
  ELSE
    LET headers == parsePGNHeaders(event.content)
        h       == headers.timecontrol
        timeControl ==
          IF h.f \in {"num", "numinc"}
            THEN [initial |-> h.i, increment |-> h.inc]
            ELSE DefaultTC
    IN [id        |-> event.d,
        eventId   |-> event.id,
        white     |-> IF event.white # "" THEN event.white ELSE headers.white,
        black     |-> IF event.black # "" THEN event.black ELSE headers.black,
        pgn       |-> event.content,
        timeControl |-> timeControl,
        result    |-> IF headers.result # "" THEN headers.result ELSE "*",
        createdAt |-> event.created_at,
        updatedAt |-> event.created_at]

\* ------------------------------------------------------------ parseChallenge
parseChallenge(event) ==
  IF event.d = "" \/ event.p = "" THEN Null
  ELSE IF ~event.content.ok THEN Null
  ELSE
    LET content == event.content
    IN [id         |-> event.d,
        eventId    |-> event.id,
        challenger |-> event.pubkey,
        challenged |-> event.p,
        timeControl |-> IF content.timeControl # AbsentTC
                          THEN content.timeControl ELSE DefaultTC,
        challengerColor |-> IF content.challengerColor # ""
                              THEN content.challengerColor ELSE "random",
        createdAt  |-> event.created_at,
        status     |-> IF event.status # "" THEN event.status ELSE "pending"]

\* --------------------------------------------- Array.prototype.sort (stable)
\* gameEvents.sort((a, b) => b.created_at - a.created_at): newest first;
\* events with equal created_at keep the order the relay returned them in.
RECURSIVE InsertDesc(_, _)
InsertDesc(e, s) ==
  IF s = <<>> THEN <<e>>
  ELSE IF Head(s).created_at >= e.created_at
         THEN <<Head(s)>> \o InsertDesc(e, Tail(s))
         ELSE <<e>> \o s

RECURSIVE SortDesc(_)
SortDesc(s) ==
  IF s = <<>> THEN <<>>
  ELSE InsertDesc(s[Len(s)], SortDesc(SubSeq(s, 1, Len(s) - 1)))

\* ---------------------------------------------- queryFn of useChessGameData
isGameEvent(e) == e.kind = CHESS_GAME_KIND

isAcceptedChallenge(e) ==
  e.kind = CHESS_CHALLENGE_KIND /\ e.status = "accepted"

\* gameFromAccepted with the two colour branches exchanged.
gameFromAccepted_ColoursSwapped(gameId, acceptedChallenge) ==
  IF ~acceptedChallenge.content.ok THEN Null
  ELSE
    LET content == acceptedChallenge.content
        originalChallenger == content.originalChallenger
        challengerSide == IF originalChallenger # ""
                            THEN originalChallenger ELSE acceptedChallenge.p
        isOdd == (charCodeSum(originalChallenger)
                    + charCodeSum(acceptedChallenge.pubkey)) % 2 = 1
        challengerIsWhite ==
          IF content.challengerColor = "w" THEN FALSE
          ELSE IF content.challengerColor = "b" THEN TRUE
          ELSE isOdd
    IN [id        |-> gameId,
        eventId   |-> acceptedChallenge.id,
        white     |-> IF challengerIsWhite THEN challengerSide
                                           ELSE acceptedChallenge.pubkey,
        black     |-> IF challengerIsWhite THEN acceptedChallenge.pubkey
                                           ELSE challengerSide,
        pgn       |-> StarPgn,
        timeControl |-> IF content.timeControl # AbsentTC
                          THEN content.timeControl ELSE DefaultTC,
        result    |-> "*",
        createdAt |-> acceptedChallenge.created_at,
        updatedAt |-> acceptedChallenge.created_at]

\* gameFromAccepted with the random branch decided by the clock (the parity
\* of the accept event's created_at) instead of the two identities.
gameFromAccepted_RandomByClock(gameId, acceptedChallenge) ==
  IF ~acceptedChallenge.content.ok THEN Null
  ELSE
    LET content == acceptedChallenge.content
        originalChallenger == content.originalChallenger
        challengerSide == IF originalChallenger # ""
                            THEN originalChallenger ELSE acceptedChallenge.p
        isOdd == acceptedChallenge.created_at % 2 = 1
        challengerIsWhite ==
          IF content.challengerColor = "w" THEN TRUE
          ELSE IF content.challengerColor = "b" THEN FALSE
          ELSE isOdd
    IN [id        |-> gameId,
        eventId   |-> acceptedChallenge.id,
        white     |-> IF challengerIsWhite THEN challengerSide
                                           ELSE acceptedChallenge.pubkey,
        black     |-> IF challengerIsWhite THEN acceptedChallenge.pubkey
                                           ELSE challengerSide,
        pgn       |-> StarPgn,
        timeControl |-> IF content.timeControl # AbsentTC
                          THEN content.timeControl ELSE DefaultTC,
        result    |-> "*",
        createdAt |-> acceptedChallenge.created_at,
        updatedAt |-> acceptedChallenge.created_at]

\* The branch taken when an accepted challenge event was found.
gameFromAccepted(gameId, acceptedChallenge) ==
  IF ~acceptedChallenge.content.ok THEN Null       \* JSON.parse throws
  ELSE
    LET content == acceptedChallenge.content
        timeControl == IF content.timeControl # AbsentTC
                         THEN content.timeControl ELSE DefaultTC
        originalChallenger == content.originalChallenger
        challengerSide == IF originalChallenger # ""
                            THEN originalChallenger ELSE acceptedChallenge.p
        hash  == charCodeSum(originalChallenger)
                   + charCodeSum(acceptedChallenge.pubkey)
        isOdd == hash % 2 = 1
        challengerIsWhite ==
          IF content.challengerColor = "w" THEN TRUE
          ELSE IF content.challengerColor = "b" THEN FALSE
          ELSE isOdd
    IN [id        |-> gameId,
        eventId   |-> acceptedChallenge.id,
        white     |-> IF challengerIsWhite THEN challengerSide
                                           ELSE acceptedChallenge.pubkey,
        black     |-> IF challengerIsWhite THEN acceptedChallenge.pubkey
                                           ELSE challengerSide,
        pgn       |-> StarPgn,
        timeControl |-> timeControl,
        result    |-> "*",
        createdAt |-> acceptedChallenge.created_at,
        updatedAt |-> acceptedChallenge.created_at]

\* events: the sequence nostr.query returned.
queryFn(events, gameId) ==
  LET gameEvents == SortDesc(SelectSeq(events, isGameEvent))
      accepted   == SelectSeq(events, isAcceptedChallenge)
  IN IF Len(gameEvents) > 0 THEN parseGameEvent(gameEvents[1])
     ELSE IF Len(accepted) > 0 THEN gameFromAccepted(gameId, accepted[1])
     ELSE Null


\* =========================================================================
\* State
\* =========================================================================
VARIABLES
  now,        \* Math.floor(Date.now() / 1000)
  nextId,     \* the id the next signed event gets
  relay,      \* the events the relay stores
  signed,     \* the events signed by one of the mutation hooks
  mutation,   \* the last mutation call: its variables, status, error
  gameData,   \* data of useChessGameData(GameId): the last projection
  \* the Game page of one client, viewing GameId
  pageUser,       \* useCurrentUser(): the pubkey logged in, or NoUser
  chess,          \* the Chess instance: its move history
  lastMove,       \* the last-move marker ("" = null)
  result,         \* the result state
  lastLoadedPgn,  \* lastLoadedPgnRef.current
  lastEventRef,   \* lastEventRef.current of useGameSubscription (0 = null)
  delivered,      \* ids of the events the subscription has yielded
  publishCalls,   \* the publishMove calls of the page, in call order
  lastCall,       \* the last handleMove call: its move and return value
  toast,          \* title of the last toast shown ("" = none)
  routeGameId,    \* useParams().gameId: the identifier the page views
  subscribed,     \* identifiers with a live nostr.req of useGameSubscription
  invalidated,    \* the cached query ['chess-game', routeGameId] is invalidated
  moveHistory,    \* Game: the memoised chess.history() the page renders with
  chessClock,     \* state of the mounted ChessClock component, or NoClock
  timeoutCalls,   \* the colours onTimeout was called with, in order
  chessGame       \* state of a useChessGame hook, with its onGameEnd calls

\* What the Game component holds, and with it the query cache flag.
pageState == <<pageUser, chess, lastMove, result, lastLoadedPgn, lastEventRef,
               delivered, publishCalls, lastCall, toast, routeGameId,
               subscribed>>

pageVars == <<pageState, invalidated>>

clockVars == <<moveHistory, chessClock, timeoutCalls>>

vars == <<now, nextId, relay, signed, mutation, gameData, pageVars, clockVars,
          chessGame>>

\* useChessGame(options) at its first render: the board loaded from
\* initialPgn (a text that cannot be read leaves a fresh board), the states
\* and the ref at their initial values, and no onGameEnd call made.
NewChessGame(color, initialPgn) ==
  [playerColor |-> color,
   chess |-> IF initialPgn.ok THEN initialPgn.hist ELSE <<>>,
   gameStarted |-> initialPgn.t # "empty",
   result |-> "*",
   lastMove |-> "",
   gameEndedRef |-> FALSE,
   onGameEnd |-> <<>>]

\* ------------------------------------------------------------- ChessClock
\* The state of the component: whiteTime, blackTime and prevTurnRef.current.
\* Times are whole units of wall-clock time.
NoClock == [mounted |-> FALSE, whiteTime |-> 0, blackTime |-> 0,
            prevTurnRef |-> "w"]

\* chess.turn()
turn(h) == IF Len(h) % 2 = 0 THEN "w" ELSE "b"

\* The sentinel of an untimed game ignored everywhere.
untimed_Never(tc) == FALSE

\* `timeControl.initial === 0`: the test of tick, of the animation effect,
\* of handleTimeout and of isUnlimited.
untimed(tc) == tc.initial = 0

\* gameStarted={moveHistory.length > 0}
gameStarted == Len(moveHistory) > 0

\* The first render: useState(timeControl.initial), useRef(turn).
mountClock(tc, turnNow) ==
  [mounted |-> TRUE, whiteTime |-> tc.initial, blackTime |-> tc.initial,
   prevTurnRef |-> turnNow]

\* "Reset times when time control changes": runs when timeControl or
\* gameStarted differs from the render before.
resetEffect(c, depsChanged, tc, started) ==
  IF depsChanged /\ ~started
    THEN [c EXCEPT !.whiteTime = tc.initial, !.blackTime = tc.initial]
    ELSE c

\* The increment effect crediting the side that is to move now.
incrementEffect_CreditsSideToMove(c, tc, started, turnNow) ==
  LET credited ==
        IF started /\ c.prevTurnRef # turnNow /\ tc.increment > 0
          THEN (IF turnNow = "w"
                  THEN [c EXCEPT !.whiteTime = @ + tc.increment]
                  ELSE [c EXCEPT !.blackTime = @ + tc.increment])
          ELSE c
  IN [credited EXCEPT !.prevTurnRef = turnNow]

\* "Add increment when turn changes (after a move)".
incrementEffect(c, tc, started, turnNow) ==
  LET credited ==
        IF started /\ c.prevTurnRef # turnNow /\ tc.increment > 0
          THEN (IF c.prevTurnRef = "w"
                  THEN [c EXCEPT !.whiteTime = @ + tc.increment]
                  ELSE [c EXCEPT !.blackTime = @ + tc.increment])
          ELSE c
  IN [credited EXCEPT !.prevTurnRef = turnNow]

\* What the page's render leaves of the clock: the clock card is rendered
\* while there is a game and it is not unlimited; a clock that stays mounted
\* runs its effects against the props of the render before.
ClockEffects ==
  chessClock' =
    IF gameData' = Null \/ untimed(gameData'.timeControl) THEN NoClock
    ELSE IF ~chessClock.mounted
      THEN mountClock(gameData'.timeControl, turn(chess'))
    ELSE incrementEffect(
           resetEffect(chessClock,
                       gameData'.timeControl # gameData.timeControl
                         \/ gameStarted' # gameStarted,
                       gameData'.timeControl, gameStarted'),
           gameData'.timeControl, gameStarted', turn(chess'))

\* A useMutation result: the hook, the caller and the challenged identity of
\* the Challenge it was called with ("" for the hooks that take none), and
\* how the call ended.
IdleMutation ==
  [hook |-> "", user |-> NoUser, challenged |-> "", status |-> "idle",
   error |-> ""]

Mutation(hook, user, challenged, status, error) ==
  [hook |-> hook, user |-> user, challenged |-> challenged,
   status |-> status, error |-> error]

\* The events a query with '#d': [gameId] for both kinds returns, as a set.
\* (The filters carry limit 20 and 10; MaxEvents stays below both.)
Matching(gameId) ==
  {e \in relay : e.kind \in {CHESS_GAME_KIND, CHESS_CHALLENGE_KIND}
                 /\ e.d = gameId}

\* Every order a query may return a set of events in.
RECURSIVE Orders(_)
Orders(S) ==
  IF S = {} THEN {<<>>}
  ELSE UNION {{<<e>> \o s : s \in Orders(S \ {e})} : e \in S}

\* The model stops making events after MaxEvents of them.
RelayHasRoom == nextId <= MaxEvents

\* nostr.event(event, { signal: AbortSignal.timeout(5000) }): stored, or the
\* call throws (relay error or the five-second budget).
Broadcast(event, ok) ==
  relay' = IF ok THEN relay \cup {event} ELSE relay

\* No handleMove call yet.
NoCall == [m |-> "", ret |-> FALSE]

\* =========================================================================
\* Operations
\* =========================================================================
Tick ==
  /\ now < MaxTime
  /\ now' = now + 1
  /\ UNCHANGED <<chessGame, moveHistory, timeoutCalls, nextId, relay, signed,
                 mutation, gameData, pageVars>>
  /\ ClockEffects

\* ------------------------------------------------------ useCreateChallenge
ChallengerColors == {"w", "b", "random"}

useCreateChallenge(user, challenged, timeControl, challengerColor, ok) ==
  /\ RelayHasRoom
  /\ \A e \in signed : e.d # GameId          \* generateGameId() is fresh
  /\ IF user = NoUser
       THEN /\ mutation' = Mutation("create", user, "", "error", "Not logged in")
            /\ UNCHANGED <<nextId, relay, signed>>
       ELSE LET event == Event(nextId, user, CHESS_CHALLENGE_KIND, now, GameId,
                               challenged, 0, "pending", "", "",
                               Json(TRUE, timeControl, challengerColor, ""))
            IN /\ signed' = signed \cup {event}
               /\ nextId' = nextId + 1
               /\ Broadcast(event, ok)
               /\ mutation' = Mutation("create", user, "",
                                       IF ok THEN "success" ELSE "error",
                                       IF ok THEN "" ELSE "publish failed")
  /\ UNCHANGED <<chessGame, moveHistory, timeoutCalls, now, gameData,
                 pageVars>>
  /\ ClockEffects

\* ---------------------------------------------------- usePendingChallenges
\* What nostr.query returns for { kinds, '#p': [user], '#status': ['pending'] },
\* as a set; the relay chooses the order.
PendingQuery(user) ==
  {e \in relay : /\ e.kind = CHESS_CHALLENGE_KIND
                 /\ e.p = user
                 /\ e.status = "pending"}

\* challenges.sort((a, b) => b.createdAt - a.createdAt), stable.
RECURSIVE InsertChallenge(_, _)
InsertChallenge(c, s) ==
  IF s = <<>> THEN <<c>>
  ELSE IF Head(s).createdAt >= c.createdAt
         THEN <<Head(s)>> \o InsertChallenge(c, Tail(s))
         ELSE <<c>> \o s

RECURSIVE SortChallenges(_)
SortChallenges(s) ==
  IF s = <<>> THEN <<>>
  ELSE InsertChallenge(s[Len(s)], SortChallenges(SubSeq(s, 1, Len(s) - 1)))

\* The loop over the returned events: challenges collected so far.
RECURSIVE collectPending(_, _, _)
collectPending(user, events, n) ==
  IF n = 0 THEN <<>>
  ELSE LET before    == collectPending(user, events, n - 1)
           challenge == parseChallenge(events[n])
       IN IF /\ challenge # Null
             /\ challenge.status = "pending"
             /\ \A i \in DOMAIN before : before[i].id # challenge.id
             /\ challenge.challenger # user
            THEN Append(before, challenge)
            ELSE before

\* queryFn of usePendingChallenges for the events the query returned.
usePendingChallenges(user, events) ==
  IF user = NoUser THEN <<>>
  ELSE SortChallenges(collectPending(user, events, Len(events)))

\* ------------------------------------------------------ useAcceptChallenge
\* challengeEvent: the pending event the Challenge object was parsed from.
PendingChallengeEvents ==
  {e \in relay : /\ e.kind = CHESS_CHALLENGE_KIND
                 /\ parseChallenge(e) # Null
                 /\ parseChallenge(e).status = "pending"}

\* useAcceptChallenge without its comparison of user.pubkey with
\* challenge.challenged.
useAcceptChallenge_NoIdentityCheck(user, challengeEvent, ok) ==
  LET challenge == parseChallenge(challengeEvent) IN
  /\ RelayHasRoom
  /\ IF user = NoUser
       THEN /\ mutation' = Mutation("accept", user, challenge.challenged,
                                    "error", "Not logged in")
            /\ UNCHANGED <<nextId, relay, signed>>
     ELSE LET event == Event(nextId, user, CHESS_CHALLENGE_KIND, now,
                             challenge.id, challenge.challenger,
                             challenge.eventId, "accepted", "", "",
                             Json(TRUE, challenge.timeControl,
                                  challenge.challengerColor,
                                  challenge.challenger))
          IN /\ signed' = signed \cup {event}
             /\ nextId' = nextId + 1
             /\ Broadcast(event, ok)
             /\ mutation' = Mutation("accept", user, challenge.challenged,
                                     IF ok THEN "success" ELSE "error",
                                     IF ok THEN "" ELSE "publish failed")
  /\ UNCHANGED <<chessGame, moveHistory, timeoutCalls, now, gameData,
                 pageVars>>
  /\ ClockEffects

\* useAcceptChallenge with a content that leaves the time control out.
useAcceptChallenge_NoTimeControl(user, challengeEvent, ok) ==
  LET challenge == parseChallenge(challengeEvent) IN
  /\ RelayHasRoom
  /\ IF user = NoUser
       THEN /\ mutation' = Mutation("accept", user, challenge.challenged,
                                    "error", "Not logged in")
            /\ UNCHANGED <<nextId, relay, signed>>
     ELSE IF user # challenge.challenged
       THEN /\ mutation' = Mutation("accept", user, challenge.challenged,
                                    "error", "You are not the challenged player")
            /\ UNCHANGED <<nextId, relay, signed>>
     ELSE LET event == Event(nextId, user, CHESS_CHALLENGE_KIND, now,
                             challenge.id, challenge.challenger,
                             challenge.eventId, "accepted", "", "",
                             Json(TRUE, AbsentTC,
                                  challenge.challengerColor,
                                  challenge.challenger))
          IN /\ signed' = signed \cup {event}
             /\ nextId' = nextId + 1
             /\ Broadcast(event, ok)
             /\ mutation' = Mutation("accept", user, challenge.challenged,
                                     IF ok THEN "success" ELSE "error",
                                     IF ok THEN "" ELSE "publish failed")
  /\ UNCHANGED <<chessGame, moveHistory, timeoutCalls, now, gameData,
                 pageVars>>
  /\ ClockEffects

useAcceptChallenge(user, challengeEvent, ok) ==
  LET challenge == parseChallenge(challengeEvent) IN
  /\ RelayHasRoom
  /\ IF user = NoUser
       THEN /\ mutation' = Mutation("accept", user, challenge.challenged,
                                    "error", "Not logged in")
            /\ UNCHANGED <<nextId, relay, signed>>
     ELSE IF user # challenge.challenged
       THEN /\ mutation' = Mutation("accept", user, challenge.challenged,
                                    "error", "You are not the challenged player")
            /\ UNCHANGED <<nextId, relay, signed>>
     ELSE LET event == Event(nextId, user, CHESS_CHALLENGE_KIND, now,
                             challenge.id, challenge.challenger,
                             challenge.eventId, "accepted", "", "",
                             Json(TRUE, challenge.timeControl,
                                  challenge.challengerColor,
                                  challenge.challenger))
          IN /\ signed' = signed \cup {event}
             /\ nextId' = nextId + 1
             /\ Broadcast(event, ok)
             /\ mutation' = Mutation("accept", user, challenge.challenged,
                                     IF ok THEN "success" ELSE "error",
                                     IF ok THEN "" ELSE "publish failed")
  /\ UNCHANGED <<chessGame, moveHistory, timeoutCalls, now, gameData,
                 pageVars>>
  /\ ClockEffects

\* useDeclineChallenge signing under the identifier of the game itself.
useDeclineChallenge_SameIdentifier(user, challengeEvent, ok) ==
  LET challenge == parseChallenge(challengeEvent) IN
  /\ RelayHasRoom
  /\ IF user = NoUser
       THEN /\ mutation' = Mutation("decline", user, challenge.challenged,
                                    "error", "Not logged in")
            /\ UNCHANGED <<nextId, relay, signed>>
     ELSE IF user # challenge.challenged
       THEN /\ mutation' = Mutation("decline", user, challenge.challenged,
                                    "error", "You are not the challenged player")
            /\ UNCHANGED <<nextId, relay, signed>>
     ELSE LET event == Event(nextId, user, CHESS_CHALLENGE_KIND, now,
                             challenge.id, challenge.challenger,
                             challenge.eventId, "declined", "", "",
                             Json(TRUE, challenge.timeControl,
                                  challenge.challengerColor, ""))
          IN /\ signed' = signed \cup {event}
             /\ nextId' = nextId + 1
             /\ Broadcast(event, ok)
             /\ mutation' = Mutation("decline", user, challenge.challenged,
                                     IF ok THEN "success" ELSE "error",
                                     IF ok THEN "" ELSE "publish failed")
  /\ UNCHANGED <<chessGame, moveHistory, timeoutCalls, now, gameData,
                 pageVars>>
  /\ ClockEffects

\* ----------------------------------------------------- useDeclineChallenge
useDeclineChallenge(user, challengeEvent, ok) ==
  LET challenge == parseChallenge(challengeEvent) IN
  /\ RelayHasRoom
  /\ IF user = NoUser
       THEN /\ mutation' = Mutation("decline", user, challenge.challenged,
                                    "error", "Not logged in")
            /\ UNCHANGED <<nextId, relay, signed>>
     ELSE IF user # challenge.challenged
       THEN /\ mutation' = Mutation("decline", user, challenge.challenged,
                                    "error", "You are not the challenged player")
            /\ UNCHANGED <<nextId, relay, signed>>
     ELSE LET event == Event(nextId, user, CHESS_CHALLENGE_KIND, now,
                             challenge.id \o "-declined", challenge.challenger,
                             challenge.eventId, "declined", "", "",
                             Json(TRUE, challenge.timeControl,
                                  challenge.challengerColor, ""))
          IN /\ signed' = signed \cup {event}
             /\ nextId' = nextId + 1
             /\ Broadcast(event, ok)
             /\ mutation' = Mutation("decline", user, challenge.challenged,
                                     IF ok THEN "success" ELSE "error",
                                     IF ok THEN "" ELSE "publish failed")
  /\ UNCHANGED <<chessGame, moveHistory, timeoutCalls, now, gameData,
                 pageVars>>
  /\ ClockEffects

\* ----------------------------------------------------------- usePublishMove
\* mutationFn({ gameId, pgn, white, black }): signs a kind-64 snapshot whose
\* content is the text it was given and broadcasts it.  at: the created_at
\* of the draft, Date.now() when mutationFn started.
\* The snapshot event of the draft of lines 85-97.
GameEvent(id, user, gameId, pgn, white, black, at) ==
  Event(id, user, CHESS_GAME_KIND, at, gameId, white, 0, "", white, black, pgn)

\* queryClient.invalidateQueries({ queryKey }): a cached query is matched
\* when the filter key is a prefix of its key, element by element.
partialMatchKey(queryKey, filterKey) ==
  /\ Len(filterKey) <= Len(queryKey)
  /\ \A i \in 1..Len(filterKey) : queryKey[i] = filterKey[i]

\* The key useChessGameData caches the projection of gameId under, and the
\* key onSuccess of usePublishMove invalidates.
GameQueryKey(gameId) == <<"chess-game", gameId>>

PublishInvalidates == <<"chess-games">>

\* onSuccess of usePublishMove, seen from the cached query of the viewed
\* identifier.
onPublishSuccess ==
  invalidated' =
    (invalidated \/ partialMatchKey(GameQueryKey(routeGameId),
                                    PublishInvalidates))

publishMove(user, gameId, pgn, white, black, at, ok) ==
  IF user = NoUser
    THEN /\ mutation' = Mutation("publish", user, "", "error", "Not logged in")
         /\ UNCHANGED <<nextId, relay, signed, invalidated>>
    ELSE LET event == GameEvent(nextId, user, gameId, pgn, white, black, at)
         IN /\ signed' = signed \cup {event}
            /\ nextId' = nextId + 1
            /\ Broadcast(event, ok)
            /\ mutation' = Mutation("publish", user, "",
                                    IF ok THEN "success" ELSE "error",
                                    IF ok THEN "" ELSE "publish failed")
            /\ IF ok THEN onPublishSuccess ELSE UNCHANGED invalidated

\* The texts and player tags clients publish in this model.
GarbagePgn == Pgn("", "", "", NoHdr, <<>>, FALSE)

SnapContents ==
  {GarbagePgn,
   Pgn("a", "b", "0-1", IncHdr(60, 1), <<>>, TRUE),
   Pgn("a", "b", "*", IncHdr(60, 1), <<"e4">>, TRUE),
   Pgn("a", "b", "*", IncHdr(60, 1), <<"e4", "e5">>, TRUE)}

PlayerTags == {<<"", "">>, <<"b", "a">>}

usePublishMove(user, pgn, tags, ok) ==
  /\ RelayHasRoom
  /\ publishMove(user, GameId, pgn, tags[1], tags[2], now, ok)
  /\ UNCHANGED <<chessGame, moveHistory, timeoutCalls, now, gameData,
                 pageState>>
  /\ ClockEffects

\* ------------------------------------------------------------ other signers
\* Any key holder can broadcast a challenge-kind event that carries the
\* game identifier and status 'accepted', with any content: none of this
\* goes through the hooks above.
PeerAccept(author, jsonOk) ==
  /\ RelayHasRoom
  /\ LET event == Event(nextId, author, CHESS_CHALLENGE_KIND, now, GameId,
                        "a", 0, "accepted", "", "",
                        Json(jsonOk, BlitzTC, "w", ""))
     IN /\ relay' = relay \cup {event}
        /\ nextId' = nextId + 1
  /\ UNCHANGED <<chessGame, moveHistory, timeoutCalls, now, signed, mutation,
                 gameData, pageVars>>
  /\ ClockEffects

\* ------------------------------------------------- useChessGameData (poll)
\* One run of queryFn on what nostr.query returned, in the order returned.
Poll(events) ==
  /\ gameData' = queryFn(events, GameId)
  /\ invalidated' = FALSE
  /\ UNCHANGED <<chessGame, moveHistory, timeoutCalls, now, nextId, relay,
                 signed, mutation, pageState>>
  /\ ClockEffects

\* =========================================================================
\* Specification
\* =========================================================================
Init ==
  /\ now = 0
  /\ nextId = 1
  /\ relay = {}
  /\ signed = {}
  /\ mutation = IdleMutation
  /\ gameData = Null
  /\ pageUser = NoUser
  /\ chess = <<>>
  /\ lastMove = ""
  /\ result = "*"
  /\ lastLoadedPgn = EmptyText
  /\ lastEventRef = 0
  /\ delivered = {}
  /\ publishCalls = <<>>
  /\ lastCall = NoCall
  /\ toast = ""
  /\ routeGameId = GameId
  /\ subscribed = {GameId}
  /\ invalidated = FALSE
  /\ moveHistory = <<>>
  /\ chessClock = NoClock
  /\ timeoutCalls = <<>>
  /\ chessGame = NewChessGame("", EmptyText)

\* The challenge handshake and the projection of its events.
Next ==
  \/ Tick
  \/ \E user \in {"a", NoUser}, challenged \in {"a", "b"},
        timeControl \in TimeControls, color \in ChallengerColors,
        ok \in BOOLEAN :
       useCreateChallenge(user, challenged, timeControl, color, ok)
  \/ \E user \in Users \cup {NoUser}, e \in PendingChallengeEvents,
        ok \in BOOLEAN :
       useAcceptChallenge(user, e, ok)
  \/ \E user \in Users \cup {NoUser}, e \in PendingChallengeEvents,
        ok \in BOOLEAN :
       useDeclineChallenge(user, e, ok)
  \/ \E author \in Users, jsonOk \in BOOLEAN : PeerAccept(author, jsonOk)
  \/ \E events \in Orders(Matching(GameId)) : Poll(events)

Spec == Init /\ [][Next]_vars

\* The move snapshots of one game and their projection.
NextSnap ==
  \/ Tick
  \/ \E user \in {"b", NoUser}, pgn \in SnapContents,
        tags \in PlayerTags, ok \in BOOLEAN :
       usePublishMove(user, pgn, tags, ok)
  \/ \E events \in Orders(Matching(GameId)) : Poll(events)

SpecSnap == Init /\ [][NextSnap]_vars

\* =========================================================================
\* The Game page (pages/Game.tsx) of one client
\* =========================================================================
\* The legality oracle (chess.js), reduced to what the page asks of it.  A
\* move is a token: "n" an ordinary move, "k" a move that mates, "d" a move
\* that draws, "z" a move the oracle refuses.  Nothing is legal after the
\* game has ended on the board.
Last(h) == h[Len(h)]

isCheckmate(h) == h # <<>> /\ Last(h) = "k"

isDraw(h) == h # <<>> /\ Last(h) = "d"

\* An oracle that refuses nothing while the game is on.
isLegal_RefusesNothing(h, m) == ~isCheckmate(h) /\ ~isDraw(h)

isLegal(h, m) == m \in {"n", "k", "d"} /\ ~isCheckmate(h) /\ ~isDraw(h)

\* The `if (chess.isCheckmate()) ... else if (chess.isDraw() ...)` ladder.
boardResult(h, otherwise) ==
  IF isCheckmate(h) THEN (IF turn(h) = "w" THEN "0-1" ELSE "1-0")
  ELSE IF isDraw(h) THEN "1/2-1/2"
  ELSE otherwise

\* generatePGN(chess, headers): the header lines, then chess.pgn(), taken to
\* be the move text.  The Date header is left out: it is the same on every
\* client for the length of a run.
generatePGN(h, headers) ==
  Pgn(IF headers.white # "" THEN headers.white ELSE "?",
      IF headers.black # "" THEN headers.black ELSE "?",
      IF headers.result # "" THEN headers.result ELSE "*",
      headers.timeControl, h, TRUE)

\* chess.loadPgn(text) on a text it cannot read throws; chess.js may have
\* cleared the position before it throws, or not.
FailedLoad(h) == {h, <<>>}

playerColor ==
  IF pageUser = NoUser \/ gameData = Null THEN ""
  ELSE IF pageUser = gameData.white THEN "w"
  ELSE IF pageUser = gameData.black THEN "b"
  ELSE ""

isMyTurn == playerColor # "" /\ turn(chess) = playerColor

\* One publishMove(variables, callbacks) call of the page: what started it,
\* its variables, the clock when it started and the state of its mutation.
\* ev: the id of the signed snapshot, 0 while signEvent has not answered.
PublishCall(by, gameId, pgn, white, black, at, res, status) ==
  [by |-> by, gameId |-> gameId, pgn |-> pgn, white |-> white,
   black |-> black, at |-> at, res |-> res, status |-> status, ev |-> 0]

\* The calls whose mutationFn has not settled.
InFlight == {i \in DOMAIN publishCalls : publishCalls[i].status = "pending"}

\* isPending of the mutation observer: the state of the mutation started by
\* the latest mutate call; an earlier mutation keeps running unobserved.
isPublishing ==
  publishCalls # <<>> /\ publishCalls[Len(publishCalls)].status = "pending"

isGameOver == result # "*"

TerminalResults == {"1-0", "0-1", "1/2-1/2"}

\* --------------------------------------------- the "Load PGN" effect
\* Runs after a render in which gameData?.pgn differs from the render
\* before; pgn is the new gameData.pgn (EmptyText when there is no data).
LoadPgnEffect(pgn) ==
  IF pgn = EmptyText \/ pgn = lastLoadedPgn
    THEN UNCHANGED <<chess, lastMove, result, lastLoadedPgn>>
  ELSE IF pgn.t = "star"
    THEN /\ chess' = <<>>
         /\ lastMove' = ""
         /\ result' = "*"
         /\ lastLoadedPgn' = pgn
  ELSE IF ~pgn.ok
    THEN /\ chess' \in FailedLoad(chess)
         /\ UNCHANGED <<lastMove, result, lastLoadedPgn>>
  ELSE /\ chess' = pgn.hist
       /\ lastMove' = IF pgn.hist # <<>> THEN Last(pgn.hist) ELSE lastMove
       /\ result' = IF parsePGNHeaders(pgn).result \in TerminalResults
                      THEN parsePGNHeaders(pgn).result
                      ELSE boardResult(pgn.hist, "*")
       /\ lastLoadedPgn' = pgn

pgnOf(data) == IF data = Null THEN EmptyText ELSE data.pgn

\* A refetch of useChessGameData (every 3 s, or the refresh button) and the
\* render and effect that follow it.
PagePoll(events) ==
  /\ routeGameId # NoGame                          \* enabled: !!gameId
  /\ gameData' = queryFn(events, routeGameId)
  /\ invalidated' = FALSE
  /\ IF pgnOf(gameData') # pgnOf(gameData)
       THEN LoadPgnEffect(pgnOf(gameData'))
       ELSE UNCHANGED <<chess, lastMove, result, lastLoadedPgn>>
  /\ UNCHANGED <<chessGame, moveHistory, timeoutCalls, now, nextId, relay,
                 signed, mutation, pageUser,
                 lastEventRef, delivered, publishCalls, lastCall, toast,
                 routeGameId, subscribed>>
  /\ ClockEffects

\* ------------------------------------------------------- handleGameUpdate
handleGameUpdate(pgn) ==
  IF pgn = lastLoadedPgn
    THEN UNCHANGED <<chess, lastMove, result, lastLoadedPgn>>
  ELSE IF pgn.t \in {"star", "empty"}
    THEN /\ chess' = <<>>
         /\ lastMove' = ""
         /\ lastLoadedPgn' = pgn
         /\ UNCHANGED result
  ELSE IF ~pgn.ok
    THEN /\ chess' \in FailedLoad(chess)
         /\ UNCHANGED <<lastMove, result, lastLoadedPgn>>
  ELSE /\ chess' = pgn.hist
       /\ lastMove' = IF pgn.hist # <<>> THEN Last(pgn.hist) ELSE lastMove
       /\ result' = boardResult(pgn.hist, result)
       /\ lastLoadedPgn' = pgn

\* ---------------------------------------------------- useGameSubscription
\* The relay yields each stored or new kind-64 event of the identifier
\* once, in an order of its own.
Push(event) ==
  /\ event \in relay
  /\ event.kind = CHESS_GAME_KIND
  /\ event.d \in subscribed
  /\ event.id \notin delivered
  /\ delivered' = delivered \cup {event.id}
  /\ IF event.id # lastEventRef
       THEN /\ lastEventRef' = event.id
            /\ handleGameUpdate(event.content)
       ELSE UNCHANGED <<lastEventRef, chess, lastMove, result, lastLoadedPgn>>
  /\ UNCHANGED <<chessGame, moveHistory, timeoutCalls, now, nextId, relay,
                 signed, mutation, gameData, pageUser,
                 publishCalls, lastCall, toast, routeGameId, subscribed,
                 invalidated>>
  /\ ClockEffects

\* ------------------------------------------------------------- handleMove
SnapshotsMade ==
  Cardinality({e \in relay \cup signed : e.kind = CHESS_GAME_KIND})
    + Cardinality({i \in InFlight : publishCalls[i].ev = 0})

handleMove(m) ==
  IF ~isMyTurn \/ isPublishing \/ isGameOver \/ ~isLegal(chess, m)
    THEN /\ lastCall' = [m |-> m, ret |-> FALSE]          \* return false
         /\ UNCHANGED <<chessGame, moveHistory, timeoutCalls, now, nextId,
                        relay, signed, mutation, gameData,
                        pageUser, chess, lastMove, result, lastLoadedPgn,
                        lastEventRef, delivered, publishCalls, toast,
                        routeGameId, subscribed, invalidated>>
         /\ ClockEffects
    ELSE
      LET h         == Append(chess, m)
          newResult == boardResult(h, "*")
          pgn == generatePGN(h,
                   [white  |-> gameData.white,
                    black  |-> gameData.black,
                    result |-> newResult,
                    timeControl |->
                      formatTimeControlHeader(gameData.timeControl)])
      IN /\ Len(chess) < MaxMoves
         /\ SnapshotsMade < MaxSnapshots
         /\ chess' = h
         /\ lastMove' = m
         /\ result' = IF newResult # "*" THEN newResult ELSE result
         /\ lastLoadedPgn' = pgn
         /\ publishCalls' =
              Append(publishCalls,
                     PublishCall("move", routeGameId, pgn, gameData.white,
                                 gameData.black, now, newResult, "pending"))
         /\ lastCall' = [m |-> m, ret |-> TRUE]           \* return true
         /\ UNCHANGED <<chessGame, moveHistory, timeoutCalls, now, nextId,
                        relay, signed, mutation, gameData,
                        pageUser, lastEventRef, delivered, toast,
                        routeGameId, subscribed, invalidated>>
         /\ ClockEffects

\* ----------------------------------------------------------- handleResign
\* The Resign button is rendered while canPlay (user, playerColor and not
\* isGameOver); the handler tests playerColor and isGameOver again.
handleResign ==
  /\ playerColor # ""
  /\ ~isGameOver
  /\ SnapshotsMade < MaxSnapshots
  /\ LET newResult == IF playerColor = "w" THEN "0-1" ELSE "1-0"
         pgn == generatePGN(chess,
                  [white  |-> gameData.white,
                   black  |-> gameData.black,
                   result |-> newResult,
                   timeControl |->
                     formatTimeControlHeader(gameData.timeControl)])
     IN /\ result' = newResult
        /\ publishCalls' =
             Append(publishCalls,
                    PublishCall("resign", routeGameId, pgn, gameData.white,
                                gameData.black, now, newResult, "pending"))
  /\ UNCHANGED <<chessGame, moveHistory, timeoutCalls, now, nextId, relay,
                 signed, mutation, gameData, pageUser,
                 chess, lastMove, lastLoadedPgn, lastEventRef, delivered,
                 lastCall, toast, routeGameId, subscribed, invalidated>>
  /\ ClockEffects

\* ------------------------------------------- mutationFn of usePublishMove
\* The callbacks given to mutate run only for the latest call, the one the
\* observer still follows.
onErrorToast(i) ==
  IF i = Len(publishCalls) /\ routeGameId # NoGame
       /\ publishCalls[i].by = "move"
    THEN "Failed to publish move" ELSE toast

onSuccessToast(i) ==
  LET c == publishCalls[i] IN
  IF i # Len(publishCalls) \/ routeGameId = NoGame THEN toast
  ELSE IF c.by = "move" /\ c.res # "*" THEN "Game Over"
  ELSE IF c.by = "resign" THEN "You resigned"
  ELSE toast

\* What follows once nostr.event(event, { signal: AbortSignal.timeout(5000) })
\* of call i settles: the relay stored the event, or the call threw (relay
\* error or the five seconds are over).
settle(i, event, ok) ==
  /\ Broadcast(event, ok)
  /\ publishCalls' =
       [publishCalls EXCEPT ![i].status = IF ok THEN "success" ELSE "error",
                            ![i].ev = event.id]
  /\ mutation' = Mutation("publish", pageUser, "",
                          IF ok THEN "success" ELSE "error",
                          IF ok THEN "" ELSE "publish failed")
  /\ toast' = IF ok THEN onSuccessToast(i) ELSE onErrorToast(i)
  /\ IF ok THEN onPublishSuccess ELSE UNCHANGED invalidated

\* user.signer.signEvent(draft) of call i answers: with the signed event,
\* or by throwing (the signer refuses).  The code sets no deadline for it.
SignPublish(i, ok) ==
  /\ i \in InFlight
  /\ publishCalls[i].ev = 0
  /\ LET c == publishCalls[i] IN
     IF ok
       THEN /\ signed' = signed \cup
                 {GameEvent(nextId, pageUser, c.gameId, c.pgn, c.white,
                            c.black, c.at)}
            /\ nextId' = nextId + 1
            /\ publishCalls' = [publishCalls EXCEPT ![i].ev = nextId]
            /\ UNCHANGED <<mutation, toast>>
       ELSE /\ publishCalls' = [publishCalls EXCEPT ![i].status = "error"]
            /\ mutation' = Mutation("publish", pageUser, "", "error",
                                    "signing failed")
            /\ toast' = onErrorToast(i)
            /\ UNCHANGED <<signed, nextId>>
  /\ UNCHANGED <<chessGame, moveHistory, timeoutCalls, now, relay, gameData,
                 pageUser, chess, lastMove, result,
                 lastLoadedPgn, lastEventRef, delivered, lastCall,
                 routeGameId, subscribed, invalidated>>
  /\ ClockEffects

\* The broadcast of the signed event of call i settles.
BroadcastPublish(i, ok) ==
  /\ i \in InFlight
  /\ publishCalls[i].ev # 0
  /\ settle(i, CHOOSE e \in signed : e.id = publishCalls[i].ev, ok)
  /\ UNCHANGED <<chessGame, moveHistory, timeoutCalls, now, nextId, signed,
                 gameData, pageUser, chess, lastMove,
                 result, lastLoadedPgn, lastEventRef, delivered, lastCall,
                 routeGameId, subscribed>>
  /\ ClockEffects

\* The whole mutationFn of call i in one step: the signer answers and the
\* broadcast settles with nothing in between.
SettlePublish(i, ok) ==
  /\ i \in InFlight
  /\ publishCalls[i].ev = 0
  /\ LET c     == publishCalls[i]
         event == GameEvent(nextId, pageUser, c.gameId, c.pgn, c.white,
                            c.black, c.at)
     IN /\ signed' = signed \cup {event}
        /\ nextId' = nextId + 1
        /\ settle(i, event, ok)
  /\ UNCHANGED <<chessGame, moveHistory, timeoutCalls, now, gameData,
                 pageUser, chess, lastMove, result,
                 lastLoadedPgn, lastEventRef, delivered, lastCall,
                 routeGameId, subscribed>>
  /\ ClockEffects

\* ------------------------------------------------- the other participants
\* Another client publishes a snapshot of the game through its own
\* usePublishMove: the same event shape, signed by its user.
RemoteSnapshot(author, pgn) ==
  /\ SnapshotsMade < MaxSnapshots
  /\ relay' = relay \cup {Event(nextId, author, CHESS_GAME_KIND, now, GameId,
                                "a", 0, "", "a", "b", pgn)}
  /\ nextId' = nextId + 1
  /\ UNCHANGED <<chessGame, moveHistory, timeoutCalls, now, signed, mutation,
                 gameData, pageVars>>
  /\ ClockEffects

\* A challenge of "a" to "b" with "a" as white, and its acceptance by "b".
ChallengeOf(gameId, id, tc) ==
  Event(id, "a", CHESS_CHALLENGE_KIND, 0, gameId, "b", 0, "pending", "", "",
        Json(TRUE, tc, "w", ""))

AcceptOf(gameId, id, tc) ==
  Event(id + 1, "b", CHESS_CHALLENGE_KIND, 0, gameId, "a", id, "accepted",
        "", "", Json(TRUE, tc, "w", "a"))

\* The game of SpecGame: "a" challenged "b" asking for white, "b" accepted.
GameOrigin == ChallengeOf(GameId, 1, BlitzTC)

GameAccept == AcceptOf(GameId, 1, BlitzTC)

GameText(h, res) ==
  generatePGN(h, [white |-> "a", black |-> "b", result |-> res,
                  timeControl |-> formatTimeControlHeader(BlitzTC)])

RemoteTexts ==
  {GameText(<<"n">>, "*"), GameText(<<"n", "n">>, "*"),
   GameText(<<>>, "1-0"), GarbagePgn}

MoveInputs == {"n", "k", "z"}

PageUsers == {"a", "b", "c", NoUser}

\* A page that has just been mounted on GameId.
FreshPage ==
  /\ now = 0
  /\ signed = {}
  /\ mutation = IdleMutation
  /\ gameData = Null
  /\ chess = <<>>
  /\ lastMove = ""
  /\ result = "*"
  /\ lastLoadedPgn = EmptyText
  /\ lastEventRef = 0
  /\ delivered = {}
  /\ publishCalls = <<>>
  /\ lastCall = NoCall
  /\ toast = ""
  /\ routeGameId = GameId
  /\ subscribed = {GameId}
  /\ invalidated = FALSE
  /\ moveHistory = <<>>
  /\ chessClock = NoClock
  /\ timeoutCalls = <<>>
  /\ chessGame = NewChessGame("", EmptyText)

InitGame ==
  /\ FreshPage
  /\ nextId = 3
  /\ relay = {GameOrigin, GameAccept}
  /\ pageUser \in PageUsers

NextGame ==
  \/ Tick
  \/ \E events \in Orders(Matching(routeGameId)) : PagePoll(events)
  \/ \E event \in relay : Push(event)
  \/ SnapshotsMade < MaxGameSnapshots /\ \E m \in MoveInputs : handleMove(m)
  \/ SnapshotsMade < MaxGameSnapshots /\ handleResign
  \/ \E i \in 1..MaxSnapshots, ok \in BOOLEAN : SettlePublish(i, ok)
  \/ /\ SnapshotsMade < MaxGameSnapshots
     /\ \E author \in Users \ {pageUser}, pgn \in RemoteTexts :
          RemoteSnapshot(author, pgn)

SpecGame == InitGame /\ [][NextGame]_vars

\* The publishing gate: white's page, ordinary moves, and a black client
\* that publishes its reply once.
InitGate == InitGame /\ pageUser = "a"

NextGate ==
  \/ \E events \in Orders(Matching(routeGameId)) : PagePoll(events)
  \/ handleMove("n")
  \/ handleResign
  \/ \E i \in 1..MaxSnapshots, ok \in BOOLEAN : SettlePublish(i, ok)
  \/ /\ \A e \in relay : e.kind = CHESS_GAME_KIND => e \in signed
     /\ RemoteSnapshot("b", GameText(<<"n", "n">>, "*"))

SpecGate == InitGate /\ [][NextGate]_vars

\* The publish calls step by step: signing and broadcasting are separate
\* awaits.  Only the broadcast carries a deadline (AbortSignal.timeout), so
\* only the broadcast is sure to settle once it has started.
NextSign ==
  \/ \E events \in Orders(Matching(routeGameId)) : PagePoll(events)
  \/ \E event \in relay : Push(event)
  \/ SnapshotsMade < MaxGameSnapshots /\ \E m \in MoveInputs : handleMove(m)
  \/ SnapshotsMade < MaxGameSnapshots /\ handleResign
  \/ \E i \in 1..MaxSnapshots, ok \in BOOLEAN : SignPublish(i, ok)
  \/ \E i \in 1..MaxSnapshots, ok \in BOOLEAN : BroadcastPublish(i, ok)

BroadcastDeadline ==
  \A i \in 1..MaxSnapshots :
    WF_vars(\E ok \in BOOLEAN : BroadcastPublish(i, ok))

SpecSign == InitGame /\ [][NextSign]_vars /\ BroadcastDeadline

\* The first moves of a game of any time control the lobby offers, seen
\* from the pages of its two players.
InitReconcile ==
  /\ FreshPage
  /\ nextId = 3
  /\ relay \in {{ChallengeOf(GameId, 1, tc), AcceptOf(GameId, 1, tc)} :
                  tc \in TimeControls \cup {DefaultTC}}
  /\ pageUser \in {"a", "b"}

NextReconcile ==
  \/ Tick
  \/ \E events \in Orders(Matching(routeGameId)) : PagePoll(events)
  \/ SnapshotsMade < MaxGameSnapshots /\ \E m \in MoveInputs : handleMove(m)
  \/ \E i \in 1..MaxSnapshots, ok \in BOOLEAN : SettlePublish(i, ok)

SpecReconcile == InitReconcile /\ [][NextReconcile]_vars

\* ------------------------------------------------------------ route changes
\* The router renders the same Game element for every /game/:gameId, so a
\* change of the parameter re-renders the mounted component: its state and
\* refs stay, the query of the new key starts without data, the cleanup of
\* the subscription effect aborts the old request and the effect opens one
\* for the new identifier, which yields that identifier's stored events.
useGameSubscription_NoAbort(g) ==
  /\ subscribed' = subscribed \cup ({g} \ {NoGame})
  /\ delivered' = delivered

\* The effect of useGameSubscription when gameId changes to g or the
\* component goes away (g = NoGame): the cleanup aborts the request of the
\* old identifier, and for an identifier the effect opens a new request.
useGameSubscription(g) ==
  /\ subscribed' = {g} \ {NoGame}
  /\ delivered' = {}

Navigate(g) ==
  /\ routeGameId = GameId
  /\ g \notin {GameId, NoGame}
  /\ routeGameId' = g
  /\ useGameSubscription(g)
  /\ gameData' = Null
  /\ invalidated' = FALSE
  /\ UNCHANGED <<chessGame, moveHistory, timeoutCalls, now, nextId, relay,
                 signed, mutation, pageUser, chess,
                 lastMove, result, lastLoadedPgn, lastEventRef,
                 publishCalls, lastCall, toast>>
  /\ ClockEffects

\* navigate('/'): the component is torn down.
Leave ==
  /\ routeGameId # NoGame
  /\ routeGameId' = NoGame
  /\ useGameSubscription(NoGame)
  /\ gameData' = Null
  /\ invalidated' = FALSE
  /\ UNCHANGED <<chessGame, moveHistory, timeoutCalls, now, nextId, relay,
                 signed, mutation, pageUser, chess,
                 lastMove, result, lastLoadedPgn, lastEventRef,
                 publishCalls, lastCall, toast>>
  /\ ClockEffects

\* A second accepted game of the same two players, with or without a first
\* snapshot.
OtherSnapshot ==
  Event(5, "a", CHESS_GAME_KIND, 0, OtherGameId, "a", 0, "", "a", "b",
        GameText(<<"n">>, "*"))

InitNav ==
  /\ FreshPage
  /\ nextId = 6
  /\ relay \in {{GameOrigin, GameAccept, ChallengeOf(OtherGameId, 3, BlitzTC),
                 AcceptOf(OtherGameId, 3, BlitzTC)} \cup S :
                  S \in {{}, {OtherSnapshot}}}
  /\ pageUser \in {"a", "b"}

NextNav ==
  \/ \E events \in Orders(Matching(routeGameId)) : PagePoll(events)
  \/ \E event \in relay : Push(event)
  \/ /\ routeGameId # NoGame
     /\ SnapshotsMade < MaxNavSnapshots
     /\ \E m \in MoveInputs : handleMove(m)
  \/ SnapshotsMade < MaxNavSnapshots /\ handleResign
  \/ \E i \in 1..MaxSnapshots, ok \in BOOLEAN : SettlePublish(i, ok)
  \/ /\ SnapshotsMade < MaxNavSnapshots
     /\ \E author \in Users \ {pageUser} :
          RemoteSnapshot(author, GameText(<<"n">>, "*"))
  \/ Navigate(OtherGameId)
  \/ Leave

SpecNav == InitNav /\ [][NextNav]_vars

\* =========================================================================
\* The clock of the Game page
\* =========================================================================
\* `gameStarted && !gameOver && timeControl.initial > 0`: the animation
\* effect requests a frame, and tick goes past its first line, only then.
clockRuns ==
  /\ chessClock.mounted
  /\ gameStarted
  /\ ~isGameOver
  /\ ~untimed(gameData.timeControl)

\* Math.max(0, x)
Max0(x) == IF x > 0 THEN x ELSE 0

\* The timeout test answering for every tick that ends on zero.
timedOut_LevelTriggered(newTime, prev) == newTime = 0

\* `newTime === 0 && prev > 0`
timedOut(newTime, prev) == newTime = 0 /\ prev > 0

\* A tick that runs both clocks down.
tick_BothSides(c, side, delta) ==
  LET prev    == IF side = "w" THEN c.whiteTime ELSE c.blackTime
      newTime == Max0(prev - delta)
  IN [clock |-> [c EXCEPT !.whiteTime = Max0(@ - delta),
                          !.blackTime = Max0(@ - delta)],
      onTimeout |-> IF timedOut(newTime, prev) THEN side ELSE ""]

\* tick past its first line, delta the time since the tick before: the new
\* state, and the colour onTimeout is called with ("" when it is not called).
tick(c, side, delta) ==
  LET prev    == IF side = "w" THEN c.whiteTime ELSE c.blackTime
      newTime == Max0(prev - delta)
  IN [clock |-> IF side = "w" THEN [c EXCEPT !.whiteTime = newTime]
                              ELSE [c EXCEPT !.blackTime = newTime],
      onTimeout |-> IF timedOut(newTime, prev) THEN side ELSE ""]

\* handleTimeout of the page publishing when the user is the one who ran
\* out of time.
handleTimeout_FlaggedSidePublishes(color) ==
  IF isGameOver \/ (gameData # Null /\ untimed(gameData.timeControl))
    THEN UNCHANGED <<result, publishCalls, toast>>
    ELSE
      LET newResult == IF color = "w" THEN "0-1" ELSE "1-0"
          pgn == generatePGN(chess,
                   [white  |-> gameData.white,
                    black  |-> gameData.black,
                    result |-> newResult,
                    timeControl |->
                      formatTimeControlHeader(gameData.timeControl)])
      IN /\ result' = newResult
         /\ publishCalls' =
              IF playerColor # "" /\ playerColor = color
                THEN Append(publishCalls,
                            PublishCall("timeout", routeGameId, pgn,
                                        gameData.white, gameData.black, now,
                                        newResult, "pending"))
                ELSE publishCalls
         /\ toast' = "Time out!"

\* handleTimeout(color) of the page: publishMove is called with no callbacks.
handleTimeout(color) ==
  IF isGameOver \/ (gameData # Null /\ untimed(gameData.timeControl))
    THEN UNCHANGED <<result, publishCalls, toast>>
    ELSE
      LET newResult == IF color = "w" THEN "0-1" ELSE "1-0"
          pgn == generatePGN(chess,
                   [white  |-> gameData.white,
                    black  |-> gameData.black,
                    result |-> newResult,
                    timeControl |->
                      formatTimeControlHeader(gameData.timeControl)])
      IN /\ result' = newResult
         /\ publishCalls' =
              IF playerColor # "" /\ playerColor # color
                THEN Append(publishCalls,
                            PublishCall("timeout", routeGameId, pgn,
                                        gameData.white, gameData.black, now,
                                        newResult, "pending"))
                ELSE publishCalls
         /\ toast' = "Time out!"

\* One animation frame of a running clock, delta after the frame before.
\* onTimeout is called from the state updater; the render that follows
\* changes none of the deps of the reset and increment effects.
Frame(delta) ==
  /\ clockRuns
  /\ gameData.timeControl.initial <= MaxClock      \* longer clocks stand
  /\ SnapshotsMade < MaxSnapshots
  /\ Len(timeoutCalls) < MaxTimeouts
  /\ LET t == tick(chessClock, turn(chess), delta) IN
       /\ chessClock' = t.clock
       /\ IF t.onTimeout = ""
            THEN UNCHANGED <<timeoutCalls, result, publishCalls, toast>>
            ELSE /\ timeoutCalls' = Append(timeoutCalls, t.onTimeout)
                 /\ handleTimeout(t.onTimeout)
  /\ UNCHANGED <<chessGame, moveHistory, now, nextId, relay, signed, mutation,
                 gameData, pageUser, chess, lastMove, lastLoadedPgn,
                 lastEventRef, delivered, lastCall, routeGameId, subscribed,
                 invalidated>>

\* moveHistory is useMemo(() => chess.history(), [chess, forceUpdate]): the
\* board object and the state setter are the same on every render, so the
\* value of the first render is kept for as long as React keeps the cache.
\* React may drop a useMemo cache; the render after that computes it anew.
MemoRecompute ==
  /\ gameData # Null
  /\ moveHistory # chess
  /\ moveHistory' = chess
  /\ UNCHANGED <<chessGame, timeoutCalls, now, nextId, relay, signed,
                 mutation, gameData, pageVars>>
  /\ ClockEffects

\* A game agreed with time control tc, on the page of a player or a
\* spectator.
ClockTimeControls ==
  {[initial |-> MaxClock, increment |-> 1],
   [initial |-> MaxClock, increment |-> 0],
   UnlimitedTC}

ClockText(h, res, tc) ==
  generatePGN(h, [white |-> "a", black |-> "b", result |-> res,
                  timeControl |-> tc])

\* What the other clients publish: moves under the agreed time control, and
\* a text whose TimeControl header reads "0".
ClockTexts(tc) ==
  {ClockText(<<"n">>, "*", formatTimeControlHeader(tc)),
   ClockText(<<"n", "n">>, "*", formatTimeControlHeader(tc)),
   ClockText(<<"n", "n">>, "*", NumHdr(0))}

InitClock ==
  /\ FreshPage
  /\ nextId = 3
  /\ \E tc \in ClockTimeControls :
       relay = {ChallengeOf(GameId, 1, tc), AcceptOf(GameId, 1, tc)}
  /\ pageUser \in {"a", "b", "c"}

\* The time control the two players agreed on.
AgreedClock ==
  (CHOOSE a \in relay : isAcceptedChallenge(a)).content.timeControl

\* The relay answers a poll with the events it stored last first.
RECURSIVE NewestFirst(_)
NewestFirst(S) ==
  IF S = {} THEN <<>>
  ELSE LET e == CHOOSE x \in S : \A y \in S : y.id <= x.id
       IN <<e>> \o NewestFirst(S \ {e})

NextClock ==
  \/ PagePoll(NewestFirst(Matching(routeGameId)))
  \/ \E event \in relay : Push(event)
  \/ SnapshotsMade < MaxClockSnapshots /\ handleMove("n")
  \/ \E i \in 1..MaxSnapshots, ok \in BOOLEAN : SettlePublish(i, ok)
  \/ /\ SnapshotsMade < MaxClockSnapshots
     /\ \E author \in {"a", "b"} \ {pageUser},
           pgn \in ClockTexts(AgreedClock) :
          RemoteSnapshot(author, pgn)
  \/ MemoRecompute
  \/ \E delta \in 1..MaxDelta : Frame(delta)

SpecClock == InitClock /\ [][NextClock]_vars

\* =========================================================================
\* useChessGame: the local game hook.  g is the hook's state: the board, the
\* states result / lastMove / gameStarted, gameEndedRef.current, and the
\* results onGameEnd was called with since the last reset.
\* =========================================================================
hookVars == <<now, nextId, relay, signed, mutation, gameData, pageVars,
              clockVars>>

\* checkGameEnd without its first line.
checkGameEnd_NoGuard(g) ==
  LET newResult == boardResult(g.chess, "*") IN
  IF newResult # "*"
    THEN [g EXCEPT !.gameEndedRef = TRUE,
                   !.result = newResult,
                   !.onGameEnd = Append(@, newResult)]
    ELSE g

checkGameEnd(g) ==
  IF g.gameEndedRef THEN g
  ELSE LET newResult == boardResult(g.chess, "*") IN
       IF newResult # "*"
         THEN [g EXCEPT !.gameEndedRef = TRUE,
                        !.result = newResult,
                        !.onGameEnd = Append(@, newResult)]
         ELSE g

\* makeMove(from, to, promotion): a move chess.move refuses changes nothing.
makeMove(m) ==
  /\ Len(chessGame.chess) < MaxMoves
  /\ chessGame' =
       IF isLegal(chessGame.chess, m)
         THEN checkGameEnd([chessGame EXCEPT !.chess = Append(@, m),
                                             !.lastMove = m,
                                             !.gameStarted = TRUE])
         ELSE chessGame
  /\ UNCHANGED hookVars

\* handleTimeout(color) of the hook.
useChessGame_handleTimeout(color) ==
  /\ chessGame' =
       IF chessGame.gameEndedRef THEN chessGame
       ELSE LET newResult == IF color = "w" THEN "0-1" ELSE "1-0" IN
            [chessGame EXCEPT !.gameEndedRef = TRUE,
                              !.result = newResult,
                              !.onGameEnd = Append(@, newResult)]
  /\ UNCHANGED hookVars

resign ==
  /\ chessGame' =
       IF chessGame.gameEndedRef \/ chessGame.playerColor = "" THEN chessGame
       ELSE LET newResult ==
                  IF chessGame.playerColor = "w" THEN "0-1" ELSE "1-0" IN
            [chessGame EXCEPT !.gameEndedRef = TRUE,
                              !.result = newResult,
                              !.onGameEnd = Append(@, newResult)]
  /\ UNCHANGED hookVars

offerDraw ==
  /\ chessGame' =
       IF chessGame.gameEndedRef THEN chessGame
       ELSE [chessGame EXCEPT !.gameEndedRef = TRUE,
                              !.result = "1/2-1/2",
                              !.onGameEnd = Append(@, "1/2-1/2")]
  /\ UNCHANGED hookVars

\* loadPgn(pgn): chess.loadPgn throws on a text it cannot read and the catch
\* swallows it; otherwise the header result, when there is one other than
\* '*', is taken without a call of onGameEnd, and checkGameEnd runs.
loadPgn(pgn) ==
  /\ chessGame' \in
       IF ~pgn.ok
         THEN {[chessGame EXCEPT !.chess = h] :
                 h \in FailedLoad(chessGame.chess)}
         ELSE LET loaded ==
                    [chessGame EXCEPT
                       !.chess = pgn.hist,
                       !.lastMove = IF pgn.hist # <<>>
                                      THEN Last(pgn.hist) ELSE @,
                       !.gameStarted = (pgn.hist # <<>>) \/ @]
                  headers == parsePGNHeaders(pgn)
                  withResult ==
                    IF headers.result \notin {"", "*"}
                      THEN [loaded EXCEPT !.result = headers.result,
                                          !.gameEndedRef = TRUE]
                      ELSE loaded
              IN {checkGameEnd(withResult)}
  /\ UNCHANGED hookVars

\* reset(): a new game; the count of onGameEnd calls starts again.
reset ==
  /\ chessGame' = [chessGame EXCEPT !.chess = <<>>,
                                    !.gameStarted = FALSE,
                                    !.result = "*",
                                    !.lastMove = "",
                                    !.gameEndedRef = FALSE,
                                    !.onGameEnd = <<>>]
  /\ UNCHANGED hookVars

\* The texts loadPgn is called with, and the initialPgn option.
HookTexts ==
  {GameText(<<"n">>, "*"), GameText(<<"n", "k">>, "*"),
   GameText(<<"n", "d">>, "*"), GameText(<<"n">>, "1-0"),
   GameText(<<"n", "k">>, "1/2-1/2"), GarbagePgn}

HookInitialPgns == {EmptyText, GameText(<<"n">>, "*")}

HookColors == {"w", "b", ""}

InitHook ==
  /\ now = 0
  /\ nextId = 1
  /\ relay = {}
  /\ signed = {}
  /\ mutation = IdleMutation
  /\ gameData = Null
  /\ pageUser = NoUser
  /\ chess = <<>>
  /\ lastMove = ""
  /\ result = "*"
  /\ lastLoadedPgn = EmptyText
  /\ lastEventRef = 0
  /\ delivered = {}
  /\ publishCalls = <<>>
  /\ lastCall = NoCall
  /\ toast = ""
  /\ routeGameId = NoGame
  /\ subscribed = {}
  /\ invalidated = FALSE
  /\ moveHistory = <<>>
  /\ chessClock = NoClock
  /\ timeoutCalls = <<>>
  /\ chessGame \in {NewChessGame(color, initialPgn) :
                      color \in HookColors, initialPgn \in HookInitialPgns}

NextHook ==
  \/ \E m \in {"n", "k", "d", "z"} : makeMove(m)
  \/ \E color \in {"w", "b"} : useChessGame_handleTimeout(color)
  \/ resign
  \/ offerDraw
  \/ \E pgn \in HookTexts : loadPgn(pgn)
  \/ reset

SpecHook == InitHook /\ [][NextHook]_vars

\* =========================================================================
\* Properties of the projector (SpecSnap: snapshots; Spec: challenge events)
\* =========================================================================
Snapshots(S) == {e \in S : isGameEvent(e)}

\* The event with the greatest (created_at, id) pair.
Newest(S) ==
  CHOOSE e \in S :
    \A f \in S : \/ f.created_at < e.created_at
                 \/ f.created_at = e.created_at /\ f.id <= e.id

\* What a projection says about the game, without the source event.
Canonical(g) ==
  IF g = Null THEN Null
  ELSE [white |-> g.white, black |-> g.black, pgn |-> g.pgn,
        timeControl |-> g.timeControl, result |-> g.result]

\* C1: the projection of the events of one identifier does not depend on
\* the order the query returned them in.
C1_ProjectionOrderIndependent ==
  \A o1, o2 \in Orders(Matching(GameId)) :
    Canonical(queryFn(o1, GameId)) = Canonical(queryFn(o2, GameId))

\* C2: when a snapshot exists, the projection is the one parsed from the
\* snapshot with the greatest (created_at, id) pair.
C2_NewestByCreatedAtThenId ==
  \A o \in Orders(Matching(GameId)) :
    Snapshots(Matching(GameId)) # {}
      => queryFn(o, GameId) = parseGameEvent(Newest(Snapshots(Matching(GameId))))

\* C3: once a projection with n > 0 moves is held, a later-stamped snapshot
\* that decodes to fewer moves is not adopted by the next projection.
C3_StaleSnapshotRejected ==
  [][(/\ gameData # Null
      /\ gameData' # Null
      /\ Len(gameData.pgn.hist) > 0
      /\ gameData'.pgn.ok
      /\ gameData'.createdAt > gameData.createdAt)
       => Len(gameData'.pgn.hist) >= Len(gameData.pgn.hist)]_vars

\* C5: when the newest snapshot does not decode and an older one does, the
\* projection is parsed from the newest snapshot among those that decode;
\* null is returned only when nothing usable exists.
C5_UndecodableSnapshotSkipped ==
  \A o \in Orders(Matching(GameId)) :
    LET M   == Matching(GameId)
        dec == {e \in Snapshots(M) : e.content.ok}
        g   == queryFn(o, GameId)
    IN /\ (/\ dec # {}
           /\ ~Newest(Snapshots(M)).content.ok
           /\ \A f \in dec : f.created_at < Newest(Snapshots(M)).created_at)
            => /\ g # Null
               /\ \E e \in dec : /\ g.eventId = e.id
                                 /\ \A f \in dec : f.created_at <= e.created_at
       /\ g = Null =>
            /\ dec = {}
            /\ \A e \in M : ~(isAcceptedChallenge(e) /\ e.content.ok)

\* C6: with no snapshot, a malformed accepted-status event beside a
\* well-formed one does not stop the projection: the game of a well-formed
\* accepted event is returned.
C6_MalformedChallengeDiscarded ==
  \A o \in Orders(Matching(GameId)) :
    LET M    == Matching(GameId)
        good == {e \in M : isAcceptedChallenge(e) /\ e.content.ok}
        bad  == {e \in M : isAcceptedChallenge(e) /\ ~e.content.ok}
    IN (Snapshots(M) = {} /\ good # {} /\ bad # {})
         => queryFn(o, GameId) \in {gameFromAccepted(GameId, e) : e \in good}

\* C7: a game is produced from a challenge only through an accepted-status
\* event written by the challenged identity and referencing the origin.
C7_OnlyChallengedAccepts ==
  \A o \in Orders(Matching(GameId)) :
    LET M == Matching(GameId)
        g == queryFn(o, GameId)
    IN (g # Null /\ Snapshots(M) = {})
         => \E origin \in PendingChallengeEvents, a \in M :
              /\ isAcceptedChallenge(a)
              /\ origin.d = GameId
              /\ a.pubkey = origin.p
              /\ a.e = origin.id
              /\ g.eventId = a.id

\* The status of a challenge as the events show it: accepted when the
\* challenged identity's accept event is there for the projector, declined
\* when only its decline event is.
AcceptedSeen(S, origin) ==
  \E a \in S : /\ isAcceptedChallenge(a)
               /\ a.d = origin.d
               /\ a.e = origin.id
               /\ a.pubkey = origin.p

DeclinedSeen(S, origin) ==
  \E x \in S : /\ x.kind = CHESS_CHALLENGE_KIND
               /\ x.status = "declined"
               /\ x.e = origin.id
               /\ x.pubkey = origin.p

observedStatus(S, origin) ==
  IF AcceptedSeen(S, origin) THEN "accepted"
  ELSE IF DeclinedSeen(S, origin) THEN "declined"
  ELSE "pending"

\* C8: once a challenge is seen accepted or declined, no step changes the
\* status seen.
C8_ChallengeTerminal ==
  [][\A origin \in PendingChallengeEvents :
       observedStatus(relay, origin) # "pending"
         => observedStatus(relay', origin) = observedStatus(relay, origin)]_vars

\* C9: a challenge leaves Pending by one broadcast of the challenged
\* identity: once its accept is there, no call signs another accept of it.
C9_NoSecondAccept ==
  [][\A origin \in PendingChallengeEvents :
       AcceptedSeen(relay, origin)
         => \A a \in signed' \ signed :
              ~(isAcceptedChallenge(a) /\ a.e = origin.id)]_vars

\* C10: an accept or a decline called with no user, or by a user who is not
\* the challenged identity, ends in an error and signs and broadcasts
\* nothing.
AuthErrors == {"Not logged in", "You are not the challenged player"}

C10_UnauthorizedRejected ==
  [][(/\ mutation' # mutation
      /\ mutation'.hook \in {"accept", "decline"}
      /\ (mutation'.user = NoUser \/ mutation'.user # mutation'.challenged))
       => /\ mutation'.status = "error"
          /\ mutation'.error \in AuthErrors
          /\ signed' = signed
          /\ relay' = relay
          /\ nextId' = nextId]_vars

C10_Witness ==
  /\ mutation.hook = "accept"
  /\ mutation.user \in Users
  /\ mutation.user # mutation.challenged
  /\ mutation.error = "You are not the challenged player"
  /\ signed = relay
  /\ relay # {}

\* ------------------------------------------- colour assignment and accept
\* The accept events signed by useAcceptChallenge, each with the challenge
\* event it answers.
AcceptPairs ==
  {pr \in signed \X signed :
     /\ pr[1].kind = CHESS_CHALLENGE_KIND
     /\ pr[1].status = "pending"
     /\ isAcceptedChallenge(pr[2])
     /\ pr[2].e = pr[1].id}

\* What each client's query returns when the relay holds the challenge and
\* its accept: the two events, in either order.
PairOrders(pr) == Orders({pr[1], pr[2]})

\* C11: with preference White the challenger is white and the acceptor
\* black, with preference Black the other way round, and in both cases the
\* two players are the original challenger and the acceptor.
C11_PreferenceDecidesColour ==
  \A pr \in AcceptPairs : \A o \in PairOrders(pr) :
    LET challenger == pr[1].pubkey
        acceptor   == pr[2].pubkey
        pref       == pr[2].content.challengerColor
        g          == queryFn(o, GameId)
    IN pref \in {"w", "b"}
         => /\ g # Null
            /\ g.white = (IF pref = "w" THEN challenger ELSE acceptor)
            /\ g.black = (IF pref = "w" THEN acceptor ELSE challenger)
            /\ {g.white, g.black} = {challenger, acceptor}

C11_Witness ==
  \E pr \in AcceptPairs :
    /\ pr[2].content.challengerColor = "b"
    /\ pr[1].pubkey # pr[2].pubkey
    /\ pr[2] \in relay
    /\ gameData # Null
    /\ gameData.eventId = pr[2].id
    /\ gameData.black = pr[1].pubkey

\* C12: with preference Random the challenger is white exactly when the
\* character codes of challenger identity and acceptor identity sum to an
\* odd number; every client that projects the challenge and its accept
\* gets that assignment, with an empty history and the result in progress.
C12_RandomColourDeterministic ==
  \A pr \in AcceptPairs : \A o1, o2 \in PairOrders(pr) :
    LET challenger == pr[1].pubkey
        acceptor   == pr[2].pubkey
        odd        == (charCodeSum(challenger) + charCodeSum(acceptor)) % 2 = 1
        g1         == queryFn(o1, GameId)
        g2         == queryFn(o2, GameId)
    IN pr[2].content.challengerColor = "random"
         => /\ g1 # Null
            /\ Canonical(g1) = Canonical(g2)
            /\ g1.white = (IF odd THEN challenger ELSE acceptor)
            /\ g1.black = (IF odd THEN acceptor ELSE challenger)
            /\ g1.pgn = StarPgn
            /\ g1.result = "*"

C12_Witness ==
  \E pr \in AcceptPairs :
    /\ pr[2].content.challengerColor = "random"
    /\ pr[1].pubkey = "a"
    /\ pr[2].pubkey = "b"
    /\ pr[2] \in relay
    /\ gameData # Null
    /\ gameData.eventId = pr[2].id
    /\ gameData.white = "a"

\* C13: with no snapshot and a decodable accepted-status event among the
\* events, the projection is the game of a decodable accepted event: empty
\* history, result in progress, the time control of its content, colours by
\* the assignment rule from the embedded challenger and the author.
C13_AcceptedChallengeProjected ==
  \A o \in Orders(Matching(GameId)) :
    LET M    == Matching(GameId)
        good == {e \in M : isAcceptedChallenge(e) /\ e.content.ok}
        g    == queryFn(o, GameId)
    IN (Snapshots(M) = {} /\ good # {})
         => /\ g # Null
            /\ g.pgn = StarPgn
            /\ g.result = "*"
            /\ \E e \in good :
                 LET challenger == IF e.content.originalChallenger # ""
                                     THEN e.content.originalChallenger ELSE e.p
                     pref == e.content.challengerColor
                     odd  == (charCodeSum(e.content.originalChallenger)
                                + charCodeSum(e.pubkey)) % 2 = 1
                     challengerIsWhite == pref = "w" \/ (pref = "random" /\ odd)
                 IN /\ g.eventId = e.id
                    /\ g.timeControl = e.content.timeControl
                    /\ g.white = (IF challengerIsWhite THEN challenger
                                                       ELSE e.pubkey)
                    /\ g.black = (IF challengerIsWhite THEN e.pubkey
                                                       ELSE challenger)

\* C14: the projection is null exactly when the events hold no decodable
\* snapshot and no accepted-status challenge event.
C14_NotFoundIffNothingUsable ==
  \A o \in Orders(Matching(GameId)) :
    LET M == Matching(GameId)
    IN queryFn(o, GameId) = Null
         <=> /\ \A e \in Snapshots(M) : ~e.content.ok
             /\ \A e \in M : ~isAcceptedChallenge(e)

\* C15: the game projected from the accept event alone has the time control
\* of the challenge it answers and the colours that the challenge's
\* preference, its author and the acceptor give.
C15_AcceptCarriesChallenge ==
  \A pr \in AcceptPairs :
    LET origin == parseChallenge(pr[1])
        g      == queryFn(<<pr[2]>>, GameId)
        odd    == (charCodeSum(origin.challenger)
                     + charCodeSum(pr[2].pubkey)) % 2 = 1
        challengerIsWhite ==
          \/ origin.challengerColor = "w"
          \/ origin.challengerColor = "random" /\ odd
    IN /\ g # Null
       /\ g.timeControl = origin.timeControl
       /\ g.white = (IF challengerIsWhite THEN origin.challenger
                                          ELSE pr[2].pubkey)
       /\ g.black = (IF challengerIsWhite THEN pr[2].pubkey
                                          ELSE origin.challenger)

C15_Witness ==
  \E pr \in AcceptPairs :
    /\ pr[1].content.timeControl = UnlimitedTC
    /\ pr[1].content.challengerColor = "random"
    /\ pr[2] \in relay
    /\ gameData = queryFn(<<pr[2]>>, GameId)

\* C16: a decline event carries the identifier of its challenge followed by
\* '-declined'; it is never among the events the projector reads for the
\* game identifier, and broadcasting it changes none of them.
DeclineEvents(S) ==
  {e \in S : e.kind = CHESS_CHALLENGE_KIND /\ e.status = "declined"}

C16_DeclineUnderOwnIdentifier ==
  [][/\ \A x \in DeclineEvents(signed') :
          /\ x.d = GameId \o "-declined"
          /\ x.d # GameId
          /\ x \notin {e \in relay' : e.d = GameId}
     /\ (DeclineEvents(signed') # DeclineEvents(signed))
          => {e \in relay' : e.d = GameId} = {e \in relay : e.d = GameId}]_vars

C16_Witness ==
  /\ DeclineEvents(relay) # {}
  /\ \E a \in relay : isAcceptedChallenge(a) /\ a \in signed
  /\ gameData # Null

\* =========================================================================
\* Properties of the Game page (SpecGame)
\* =========================================================================
\* C4: from one adopted text to the next (a poll result, a pushed snapshot
\* or a local move), the number of moves of the page's position never
\* decreases.
C4_MonotonicHistory ==
  [][lastLoadedPgn' # lastLoadedPgn => Len(chess') >= Len(chess)]_vars


\* C17: handleMove returns false, leaves the position alone and starts no
\* publish whenever the user does not hold the colour to move (spectators
\* and logged-out users included), the result is terminal, or a publish
\* for the game is in flight.
Blocked ==
  \/ playerColor = ""
  \/ turn(chess) # playerColor
  \/ result # "*"
  \/ InFlight # {}

\* A step in which handleMove ran: its return value was recorded anew, or
\* it started a publish.
MoveCalled ==
  \/ lastCall' # lastCall
  \/ /\ Len(publishCalls') > Len(publishCalls)
     /\ publishCalls'[Len(publishCalls')].by = "move"

C17_MoveRejectedWhenBlocked ==
  [][(Blocked /\ MoveCalled)
       => /\ lastCall'.ret = FALSE
          /\ UNCHANGED <<chess, lastMove, result, lastLoadedPgn, publishCalls,
                         relay, signed>>]_vars

\* C18: a move the oracle refuses makes handleMove return false and leaves
\* the position, the last-move marker, the result and lastLoadedPgnRef as
\* they were; no publish is started and nothing is signed or broadcast.
C18_IllegalMoveRejected ==
  [][(MoveCalled /\ (lastCall'.m = "z" \/ isCheckmate(chess) \/ isDraw(chess)))
       => /\ lastCall'.ret = FALSE
          /\ UNCHANGED <<chess, lastMove, result, lastLoadedPgn, publishCalls,
                         relay, signed>>]_vars

C18_Witness ==
  /\ lastCall = [m |-> "z", ret |-> FALSE]
  /\ isMyTurn
  /\ InFlight = {}
  /\ ~isGameOver
  /\ publishCalls = <<>>
  /\ signed = {}

\* C19: at no time are two publishMove calls of the page in flight.
C19_OnePublishInFlight == Cardinality(InFlight) <= 1

\* C20: when the broadcast of a move fails, the position keeps the move and
\* the failure is shown; and while the page still holds that position, a
\* poll that returns the game as it was before the move does not take the
\* move back.
FailedMoves ==
  {i \in DOMAIN publishCalls :
     publishCalls[i].by = "move" /\ publishCalls[i].status = "error"}

PreMove(g) ==
  /\ g # Null
  /\ g.pgn.ok
  /\ g.result = "*"
  /\ chess # <<>>
  /\ g.pgn.hist = SubSeq(chess, 1, Len(chess) - 1)

C20_FailedBroadcastKeepsMove ==
  [][/\ \A i \in InFlight :
          (publishCalls[i].by = "move" /\ publishCalls'[i].status = "error")
            => /\ chess' = chess
               /\ lastLoadedPgn' = lastLoadedPgn
     /\ \A i \in FailedMoves :
          (/\ lastLoadedPgn = publishCalls[i].pgn
           /\ chess = publishCalls[i].pgn.hist
           /\ gameData' # gameData
           /\ PreMove(gameData'))
            => chess' = chess]_vars

\* C25: once a projection has named white and black, every later projection
\* of the identifier names the same two, whoever signed the later snapshots
\* and whatever white and black tags they carry.
C25_PlayersFixed ==
  [][(/\ gameData # Null
      /\ gameData' # Null
      /\ gameData'.createdAt > gameData.createdAt)
       => /\ gameData'.white = gameData.white
          /\ gameData'.black = gameData.black]_vars

\* C26: once the page holds a terminal result, no poll result, pushed event
\* or operation changes it.
C26_ResultNeverLeavesTerminal ==
  [][(result \in TerminalResults) => (result' = result)]_vars

\* C28: when a pushed event makes the page adopt a text, that text is the
\* content of a newest snapshot among the events the subscription has
\* yielded so far, also when the pushed event is an older one.
SeenSnapshots(ids) ==
  {e \in relay : isGameEvent(e) /\ e.d = GameId /\ e.id \in ids}

C28_PushAdoptsProjection ==
  [][(delivered' # delivered /\ lastLoadedPgn' # lastLoadedPgn)
       => \E e \in SeenSnapshots(delivered') :
            /\ lastLoadedPgn' = e.content
            /\ \A f \in SeenSnapshots(delivered') :
                 f.created_at <= e.created_at]_vars

\* C23: a successful broadcast of a snapshot of the viewed identifier
\* invalidates the cached projection of that identifier, so the next read
\* runs the projector again.
C23_SuccessInvalidatesProjection ==
  [][(\E i \in InFlight :
        /\ publishCalls[i].gameId = routeGameId
        /\ publishCalls'[i].status = "success")
       => invalidated']_vars

\* C21: while the page still holds a locally applied move whose publish
\* failed and no snapshot of that state is stored, the user has an action
\* that submits the snapshot of that state again.
UserActions ==
  \/ \E m \in MoveInputs : handleMove(m)
  \/ handleResign

Republishes(pgn) ==
  /\ Len(publishCalls') = Len(publishCalls) + 1
  /\ publishCalls'[Len(publishCalls')].pgn = pgn

Stored(pgn) ==
  \E e \in relay : isGameEvent(e) /\ e.d = routeGameId /\ e.content = pgn

C21_FailedMoveRetryAvailable ==
  \A i \in FailedMoves :
    (/\ lastLoadedPgn = publishCalls[i].pgn
     /\ chess = publishCalls[i].pgn.hist
     /\ ~Stored(publishCalls[i].pgn)
     /\ InFlight = {}
     /\ Len(chess) < MaxMoves
     /\ SnapshotsMade < MaxSnapshots)
      => ENABLED (UserActions /\ Republishes(publishCalls[i].pgn))

\* C22: every publish call that starts eventually settles, with success or
\* with an error, so the publishing gate is always released again.
C22_SubmissionCompletes ==
  \A i \in 1..MaxSnapshots : (i \in InFlight) ~> (i \notin InFlight)

\* C24: when white's first move from the start position is accepted and its
\* snapshot stored, the snapshot decodes to a one-move history, and a second
\* client that projects the accepted challenge and this snapshot obtains
\* what the mover holds: the same history, white, black, result and time
\* control.
FirstMoveStored(i) ==
  /\ i \in DOMAIN publishCalls
  /\ publishCalls[i].by = "move"
  /\ publishCalls[i].status = "success"
  /\ Len(publishCalls[i].pgn.hist) = 1
  /\ chess = publishCalls[i].pgn.hist
  /\ gameData # Null
  /\ \E a \in relay : isAcceptedChallenge(a) /\ gameData.eventId = a.id

SecondClient(i) ==
  LET a == CHOOSE a \in relay : isAcceptedChallenge(a)
      e == CHOOSE e \in relay : e.id = publishCalls[i].ev
  IN {queryFn(events, GameId) : events \in Orders({a, e})}

C24_SecondClientReconciles ==
  \A i \in 1..MaxSnapshots :
    FirstMoveStored(i)
      => \A g \in SecondClient(i) :
           /\ g # Null
           /\ g.pgn.ok
           /\ Len(g.pgn.hist) = 1
           /\ g.pgn.hist = chess
           /\ g.white = gameData.white
           /\ g.black = gameData.black
           /\ g.result = result
           /\ g.timeControl = gameData.timeControl

\* C27: the echo of the client's own latest stored snapshot, arriving by
\* push or by poll while the page is still as the submission left it,
\* reloads nothing: position, last move, result and dedup marker stay.
AsSubmitted(c) ==
  /\ chess = c.pgn.hist
  /\ IF c.by = "move" THEN lastLoadedPgn = c.pgn ELSE result = c.res

EchoArrives(c) ==
  \/ c.ev \in delivered' \ delivered
  \/ /\ gameData' # gameData
     /\ gameData' # Null
     /\ gameData'.eventId = c.ev

C27_OwnEchoChangesNothing ==
  [][(/\ publishCalls # <<>>
      /\ publishCalls[Len(publishCalls)].status = "success"
      /\ AsSubmitted(publishCalls[Len(publishCalls)])
      /\ EchoArrives(publishCalls[Len(publishCalls)]))
       => UNCHANGED <<chess, lastMove, result, lastLoadedPgn>>]_vars

\* C29: a change of the viewed identifier and a teardown cancel the push
\* subscription: every event the subscription hands to the page is an event
\* of the identifier the page views, so nothing of an abandoned game is
\* applied to the newly viewed one, and nothing is applied after teardown.
C29_NoUpdateFromCancelledSubscription ==
  [][\A e \in relay :
       (e.id \in delivered' \ delivered) => (e.d = routeGameId)]_vars

\* The page views the other game and applied its pushed snapshot while a
\* snapshot of the abandoned game is stored and was never handed over.
C29_Witness ==
  /\ routeGameId = OtherGameId
  /\ OtherSnapshot.id \in delivered
  /\ chess = OtherSnapshot.content.hist
  /\ \E e \in relay : isGameEvent(e) /\ e.d = GameId /\ e.id \notin delivered

\* C30: once the page views the other game and that game's first poll
\* result or first pushed event has arrived, with no submission made for
\* it, position, result and dedup marker are the ones the other game's
\* events determine, whatever was adopted or done while viewing the first
\* game.
OtherArrived ==
  /\ routeGameId = OtherGameId
  /\ gameData # Null \/ delivered # {}
  /\ \A i \in DOMAIN publishCalls : publishCalls[i].gameId # OtherGameId

C30_StatePartitionedByIdentifier ==
  OtherArrived
    => IF OtherSnapshot \in relay
         THEN /\ chess = OtherSnapshot.content.hist
              /\ result = "*"
              /\ lastLoadedPgn = OtherSnapshot.content
         ELSE /\ chess = <<>>
              /\ result = "*"
              /\ lastLoadedPgn = StarPgn

\* C35: the time control agreed at acceptance survives the snapshot round
\* trip: the state projected from a stored move snapshot of handleMove has
\* the time control of the accepted challenge, the untimed one included.
AgreedTimeControl ==
  (CHOOSE a \in relay : isAcceptedChallenge(a)).content.timeControl

C35_TimeControlRoundTrip ==
  \A i \in DOMAIN publishCalls :
    (publishCalls[i].by = "move" /\ publishCalls[i].status = "success")
      => \A e \in relay :
           (e.id = publishCalls[i].ev)
             => parseGameEvent(e).timeControl = AgreedTimeControl

\* C36: when the only terminal snapshot of the game has reached a client
\* that submitted nothing itself, by push and by poll in either order, the
\* client's result is the terminal result of that snapshot's Result header.
TerminalSnapshots ==
  {e \in relay : /\ isGameEvent(e)
                 /\ e.d = routeGameId
                 /\ e.content.ok
                 /\ parsePGNHeaders(e.content).result \in TerminalResults}

C36_TerminalResultConfluent ==
  \A e \in TerminalSnapshots :
    (/\ TerminalSnapshots = {e}
     /\ publishCalls = <<>>
     /\ e.id \in delivered
     /\ gameData # Null
     /\ gameData.eventId = e.id)
      => result = parsePGNHeaders(e.content).result

\* C38: the incoming pending-challenge list of a user, for every order the
\* relay may return the events in, holds each challenge identifier at most
\* once, no challenge made by the user, and no challenge the user has
\* already accepted or declined.
Processed(user, challenge) ==
  \E r \in relay : /\ r.kind = CHESS_CHALLENGE_KIND
                   /\ r.pubkey = user
                   /\ r.e = challenge.eventId
                   /\ r.status \in {"accepted", "declined"}

PendingLists(user) ==
  {usePendingChallenges(user, events) : events \in Orders(PendingQuery(user))}

C38_PendingListFiltered ==
  \A user \in Users : \A list \in PendingLists(user) :
    /\ \A i, j \in DOMAIN list : (list[i].id = list[j].id) => (i = j)
    /\ \A i \in DOMAIN list : list[i].challenger # user
    /\ \A i \in DOMAIN list : ~Processed(user, list[i])


\* -------------------------------------------------------------------------
\* C39  In useChessGame, between two resets onGameEnd is called at most once
\*      over any sequence of makeMove, handleTimeout, resign, offerDraw and
\*      loadPgn calls, and once the game has ended (the result is no longer
\*      '*') no later call of these operations calls it again.
C39_OnGameEndAtMostOnce ==
  [][/\ Len(chessGame'.onGameEnd) <= 1
     /\ (chessGame.result # "*" /\ chessGame'.onGameEnd # <<>>)
          => (chessGame'.onGameEnd = chessGame.onGameEnd)]_vars

\* onGameEnd has been called once, and the checkmate now on the board is not
\* the end it was called for: it came onto the board after the game ended.
C39_Witness ==
  /\ Len(chessGame.onGameEnd) = 1
  /\ isCheckmate(chessGame.chess)
  /\ chessGame.onGameEnd[1] # boardResult(chessGame.chess, "*")


\* =========================================================================
\* Properties of the clock (SpecClock)
\* =========================================================================
remaining(c, side) == IF side = "w" THEN c.whiteTime ELSE c.blackTime

otherSide(side) == IF side = "w" THEN "b" ELSE "w"

\* A step in which the mounted clock changes although no prop that an effect
\* depends on (time control, gameStarted, turn) does: the work of a tick.
TickStep ==
  /\ chessClock.mounted
  /\ chessClock'.mounted
  /\ gameData' = gameData
  /\ moveHistory' = moveHistory
  /\ chess' = chess
  /\ chessClock' # chessClock

Crossing(side) ==
  /\ chessClock.mounted
  /\ chessClock'.mounted
  /\ remaining(chessClock, side) > 0
  /\ remaining(chessClock', side) = 0

C32_TimeoutEdgeTriggered ==
  [][/\ \A side \in {"w", "b"} :
          Crossing(side) => (timeoutCalls' = Append(timeoutCalls, side))
     /\ (timeoutCalls' # timeoutCalls)
          => \E side \in {"w", "b"} : Crossing(side)]_vars

\* The callback fired once, the game went on (a later snapshot was loaded),
\* and the clock is running for the side whose time is on zero.
C32_Witness ==
  /\ Len(timeoutCalls) = 1
  /\ clockRuns
  /\ gameData.timeControl.initial <= MaxClock
  /\ remaining(chessClock, turn(chess)) = 0
  /\ timeoutCalls[1] = turn(chess)

C37_OnlySideToMoveReportsTimeout ==
  \A i \in DOMAIN publishCalls :
    (publishCalls[i].by = "timeout")
      => (playerColor = IF publishCalls[i].res = "0-1" THEN "w" ELSE "b")

=========================================================================
